---------------------------- MODULE Spec2Model ----------------------------
(***************************************************************************)
(* Model of the traffic prediction system: the TrafficDataGenerator        *)
(* (services/trafficDataGenerator.ts) and the FrontendTrafficAPI           *)
(* (services/api.ts).                                                      *)
(*                                                                         *)
(* Numbers.  The code computes in IEEE doubles; the model computes in      *)
(* fixed point, each quantity in the unit stated where it is defined:      *)
(*   - a Math.random() result is r in 0..RandomRes-1, standing for         *)
(*     r / RandomRes in [0,1);                                             *)
(*   - latitude and longitude are in 1e-4 degree;                          *)
(*   - a distance is in 1e-5 km, rounded down (5.0 km is 500000);          *)
(*   - weights are in 1e-3, features and congestion values in 1e-6;        *)
(*   - the returned congestion_level is in 1e-3, predicted_speed and       *)
(*     wait_time in 1e-1, as the code rounds them.                         *)
(* The value of x / 0 for x > 0 is Infinity, kept as a flag (inf).         *)
(***************************************************************************)
EXTENDS Integers, Sequences, FiniteSets, TLC

VARIABLES
    areas,       \* the anchor list the constructor iterates (majorAreas)
    pc,          \* constructor position: "nodes", "edges", "gnn", "ready"
    areaIdx,     \* generateBangaloreNodes: index of the next area
    nodes,       \* this.nodes
    edgeIdx,     \* generateEdges: index i of the next source node
    edges,       \* this.edges
    gnnWeights,  \* this.gnnWeights
    calls,       \* API calls: slot -> the call's progress and result
    sampling,    \* the generateDataset run: progress, row pushed, result
    graphCall,   \* the fetchGraph call: progress and result
    frame,       \* the feature-function call made last: arguments and result
    simulationState,  \* useTrafficSimulation: the simulationState state
    graphData,        \* useTrafficSimulation: the graphData state
    predictions,      \* useTrafficSimulation: the predictions state
    isLoading,        \* useTrafficSimulation: the isLoading state
    error,            \* useTrafficSimulation: the error state
    interval,         \* the auto-play interval timer, or none
    hookPc       \* the hook's position: mounted or not, and the API calls its
                 \* async functions are awaiting

vars == <<areas, pc, areaIdx, nodes, edgeIdx, edges, gnnWeights, calls, sampling,
          graphCall, frame, simulationState, graphData, predictions, isLoading,
          error, interval, hookPc>>

hookVars == <<simulationState, graphData, predictions, isLoading, error, interval, hookPc>>

graphVars == <<areas, pc, areaIdx, nodes, edgeIdx, edges, gnnWeights>>

--------------------------------------------------------------------------
(* Bounds and units *)

\* resolution of a modelled Math.random() result
RandomRes == 1000

RandomValues == 0..(RandomRes - 1)

\* floor(Math.random() * n), for a draw r
RandomInt(r, n) == (r * n) \div RandomRes

Min(a, b) == IF a < b THEN a ELSE b

Max(a, b) == IF a > b THEN a ELSE b

Abs(a) == IF a < 0 THEN -a ELSE a

--------------------------------------------------------------------------
(* generateBangaloreNodes *)

majorAreas == <<
    [name |-> "MG Road",         lat |-> 129716, lng |-> 775946, type |-> "commercial"],
    [name |-> "Brigade Road",    lat |-> 129698, lng |-> 776103, type |-> "commercial"],
    [name |-> "Whitefield",      lat |-> 129698, lng |-> 777500, type |-> "tech_hub"],
    [name |-> "Electronic City", lat |-> 128456, lng |-> 776603, type |-> "tech_hub"],
    [name |-> "Koramangala",     lat |-> 129352, lng |-> 776245, type |-> "residential"],
    [name |-> "Indiranagar",     lat |-> 129719, lng |-> 776412, type |-> "mixed"],
    [name |-> "Jayanagar",       lat |-> 129279, lng |-> 775830, type |-> "residential"],
    [name |-> "Banashankari",    lat |-> 129081, lng |-> 775574, type |-> "residential"],
    [name |-> "Marathahalli",    lat |-> 129591, lng |-> 776974, type |-> "tech_hub"],
    [name |-> "HSR Layout",      lat |-> 129082, lng |-> 776476, type |-> "residential"],
    [name |-> "Silk Board",      lat |-> 129165, lng |-> 776224, type |-> "junction"],
    [name |-> "Hebbal",          lat |-> 130358, lng |-> 775970, type |-> "junction"],
    [name |-> "Bellandur",       lat |-> 129259, lng |-> 776815, type |-> "tech_hub"],
    [name |-> "BTM Layout",      lat |-> 129165, lng |-> 776101, type |-> "residential"],
    [name |-> "Rajajinagar",     lat |-> 129915, lng |-> 775554, type |-> "residential"] >>

roadTypes == <<"highway", "arterial", "local">>

\* a count drawn from 4..9
IntersectionCountOfSix(r) == RandomInt(r, 6) + 4

\* Math.floor(Math.random() * 5) + 4
IntersectionCount(r) == RandomInt(r, 5) + 4

\* (Math.random() - 0.5) * 0.02 degrees, in 1e-4 degree
Offset(r) == ((2 * r - RandomRes) * 100) \div RandomRes

\* the weights of weightedChoice, in 1e-3
RoadWeights(areaType) ==
    IF areaType = "residential" THEN <<200, 300, 500>> ELSE <<400, 400, 200>>

RECURSIVE WeightedLoop(_, _, _, _)
\* the for loop of weightedChoice from index i with `random` left
WeightedLoop(choices, weights, random, i) ==
    IF i > Len(choices) THEN choices[Len(choices)]
    ELSE IF random - weights[i] <= 0 THEN choices[i]
    ELSE WeightedLoop(choices, weights, random - weights[i], i + 1)

\* weightedChoice(choices, weights) with the draw r
weightedChoice(choices, weights, r) ==
    LET totalWeight == weights[1] + weights[2] + weights[3]
    IN  WeightedLoop(choices, weights, (r * totalWeight) \div RandomRes, 1)

\* a node whose id is numbered within its area
MakeNodeNumberedInArea(area, nodeId, i, d) ==
    [ id        |-> <<"node", i>>,
      name      |-> <<area.name, "Junction", i + 1>>,
      lat       |-> area.lat + Offset(d.lat),
      lng       |-> area.lng + Offset(d.lng),
      road_type |-> weightedChoice(roadTypes, RoadWeights(area.type), d.road),
      features  |-> [ area_type    |-> area.type,
                      capacity     |-> RandomInt(d.cap, 400) + 100,
                      signal_count |-> RandomInt(d.sig, 5) + 2 ] ]

\* the node built by one iteration of the inner loop: nodeId is the counter,
\* i the 0-based ordinal in the area, d the five draws of the iteration
MakeNode(area, nodeId, i, d) ==
    [ id        |-> <<"node", nodeId>>,
      name      |-> <<area.name, "Junction", i + 1>>,
      lat       |-> area.lat + Offset(d.lat),
      lng       |-> area.lng + Offset(d.lng),
      road_type |-> weightedChoice(roadTypes, RoadWeights(area.type), d.road),
      features  |-> [ area_type    |-> area.type,
                      capacity     |-> RandomInt(d.cap, 400) + 100,
                      signal_count |-> RandomInt(d.sig, 5) + 2 ] ]

\* the k-th set of a draw plan, plans being applied cyclically (k from 0)
Cyc(seq, k) == seq[(k % Len(seq)) + 1]

RECURSIVE AreaNodeLists(_, _, _, _, _)
\* every node list the inner loop can leave, from ordinal i on, when it runs
\* cnt iterations and draws for ordinal i from Cyc(plan, i)
AreaNodeLists(ns, area, cnt, i, plan) ==
    IF i >= cnt THEN {ns}
    ELSE UNION { AreaNodeLists(Append(ns, MakeNode(area, Len(ns), i, d)),
                               area, cnt, i + 1, plan) : d \in Cyc(plan, i) }

--------------------------------------------------------------------------
(* calculateDistance and generateEdges *)

RECURSIVE ISqrtBin(_, _, _)
\* the largest s in lo..hi with s * s <= n
ISqrtBin(n, lo, hi) ==
    IF lo >= hi THEN lo
    ELSE LET mid == (lo + hi + 1) \div 2
         IN  IF mid * mid <= n THEN ISqrtBin(n, mid, hi)
             ELSE ISqrtBin(n, lo, mid - 1)

\* floor(sqrt(n)) for 0 <= n < 2^31
ISqrt(n) == ISqrtBin(n, 0, 46340)

RECURSIVE RefineBin(_, _, _, _)
\* the largest t in lo..hi with 222*s*t + t*t <= rem
RefineBin(s, rem, lo, hi) ==
    IF lo >= hi THEN lo
    ELSE LET mid == (lo + hi + 1) \div 2
         IN  IF 222 * s * mid + mid * mid <= rem THEN RefineBin(s, rem, mid, hi)
             ELSE RefineBin(s, rem, lo, mid - 1)

\* Math.sqrt(latDiff*latDiff + lngDiff*lngDiff) * 111 km, in 1e-5 km rounded
\* down: floor(1110 * sqrt(d2)) for d2 in (1e-4 degree)^2.  It is 0 exactly
\* when the two positions are equal.
calculateDistance(node1, node2) ==
    LET latDiff == node1.lat - node2.lat
        lngDiff == node1.lng - node2.lng
        d2      == latDiff * latDiff + lngDiff * lngDiff
        s10     == ISqrt(d2 * 100)
        rem     == 12321 * (d2 * 100 - s10 * s10)
    IN  111 * s10 + RefineBin(s10, rem, 0, 110)

\* 5.0 km
MaxEdgeDistance == 500000

\* the entries {index, distance} of `distances` for source i (1-based)
DistanceTo(ns, i, j) == [index |-> j, distance |-> calculateDistance(ns[i], ns[j])]

\* a.distance - b.distance < 0, or equal distance and a earlier in the list
\* (Array.prototype.sort is stable, and the list is built in index order)
SortsBefore(a, b) ==
    \/ a.distance < b.distance
    \/ a.distance = b.distance /\ a.index < b.index

RECURSIVE SortedPrefix(_, _, _)
\* the first k entries of distances.sort(...), for the entries in `rest`
SortedPrefix(rest, k, acc) ==
    IF k = 0 \/ rest = {} THEN acc
    ELSE LET first == CHOOSE a \in rest : \A b \in rest \ {a} : SortsBefore(a, b)
         IN  SortedPrefix(rest \ {first}, k - 1, Append(acc, first))

\* a connection count between 2 and 5
ConnectionCountUpToFive(r) == RandomInt(r, 4) + 2

\* Math.floor(Math.random() * 3) + 2
ConnectionCount(r) == RandomInt(r, 3) + 2

\* a duplicate test that compares one orientation only
EdgeExistsOneWay(es, edge) ==
    \E k \in 1..Len(es) : es[k].source = edge.source /\ es[k].target = edge.target

\* the `exists` test of generateEdges
EdgeExists(es, edge) ==
    \E k \in 1..Len(es) :
        \/ es[k].source = edge.source /\ es[k].target = edge.target
        \/ es[k].source = edge.target /\ es[k].target = edge.source

\* if (distance < 5.0)
WithinRange(distance) == distance < MaxEdgeDistance

\* an edge whose target is the candidate's name instead of its id
MakeEdgeByName(ns, i, c, rdraw) ==
    [ source    |-> ns[i].id,
      target    |-> ns[c.index].name,
      distance  |-> c.distance,
      road_type |-> roadTypes[RandomInt(rdraw, 3) + 1],
      weight    |-> 1000 ]

\* the edge built for candidate c of source i (lines 86-95), rdraw the draw
\* of its road type
MakeEdge(ns, i, c, rdraw) ==
    [ source    |-> ns[i].id,
      target    |-> ns[c.index].id,
      distance  |-> c.distance,
      road_type |-> roadTypes[RandomInt(rdraw, 3) + 1],
      weight    |-> 1000 ]

RECURSIVE ConnectLoop(_, _, _, _, _, _)
\* the loop over k of generateEdges for source i: cands is the sorted prefix,
\* rd the road-type draws, one per iteration
ConnectLoop(es, ns, i, cands, rd, k) ==
    IF k > Len(cands) THEN es
    ELSE LET c    == cands[k]
             edge == MakeEdge(ns, i, c, rd[k])
         IN  IF WithinRange(c.distance) /\ ~EdgeExists(es, edge)
             THEN ConnectLoop(Append(es, edge), ns, i, cands, rd, k + 1)
             ELSE ConnectLoop(es, ns, i, cands, rd, k + 1)

\* the edge list after the outer-loop iteration for source i, with the draw
\* rc for connectionCount and rd for the road types
EdgesAfter(es, ns, i, rc, rd) ==
    LET others == { DistanceTo(ns, i, j) : j \in (1..Len(ns)) \ {i} }
        m      == Min(ConnectionCount(rc), Len(ns) - 1)
    IN  ConnectLoop(es, ns, i, SortedPrefix(others, m, <<>>), rd, 1)

--------------------------------------------------------------------------
(* initializeGNN *)

\* a weight drawn from [-1, 2): Math.random() * 3 - 1
WeightOfWide(r) == (3 * r * 1000) \div RandomRes - 1000

\* Math.random() * 2 - 1, in 1e-3
WeightOf(r) == (2 * r * 1000) \div RandomRes - 1000

WeightVector(d) == <<WeightOf(d[1]), WeightOf(d[2]), WeightOf(d[3]), WeightOf(d[4])>>

RECURSIVE WeightLists(_, _, _)
\* every value of this.nodes.map(...) for n nodes, node k (from 0) drawing
\* its four numbers from Cyc(plan, k)
WeightLists(ws, n, plan) ==
    IF Len(ws) >= n THEN {ws}
    ELSE UNION { WeightLists(Append(ws, WeightVector(d)), n, plan)
                 : d \in Cyc(plan, Len(ws)) }

--------------------------------------------------------------------------
(* predictCongestion and its features *)

\* The Math.random() results of one call, in program order: position k of
\* the call reads the tape cyclically.
Rand(tape, k) == tape[(k % Len(tape)) + 1]

\* base + Math.random() * 0.2, in 1e-6
TimeBand(base, r) == base + (r * 200000) \div RandomRes

\* a time feature whose morning rush ends at 9
getTimeFeatureShortRush(timeOfDay, dayType, r) ==
    IF dayType = "weekday"
    THEN IF (timeOfDay >= 7 /\ timeOfDay <= 9) \/ (timeOfDay >= 17 /\ timeOfDay <= 20)
         THEN TimeBand(800000, r)
         ELSE IF timeOfDay >= 11 /\ timeOfDay <= 16
              THEN TimeBand(400000, r)
              ELSE TimeBand(100000, r)
    ELSE IF timeOfDay >= 10 /\ timeOfDay <= 14
         THEN TimeBand(500000, r)
         ELSE TimeBand(200000, r)

getTimeFeature(timeOfDay, dayType, r) ==
    IF dayType = "weekday"
    THEN IF (timeOfDay >= 7 /\ timeOfDay <= 10) \/ (timeOfDay >= 17 /\ timeOfDay <= 20)
         THEN TimeBand(800000, r)
         ELSE IF timeOfDay >= 11 /\ timeOfDay <= 16
              THEN TimeBand(400000, r)
              ELSE TimeBand(100000, r)
    ELSE IF timeOfDay >= 10 /\ timeOfDay <= 14
         THEN TimeBand(500000, r)
         ELSE TimeBand(200000, r)

\* JavaScript values: a number (in the unit of its use), undefined, and an
\* object or function
Number(n) == [type |-> "number", val |-> n]

Undefined == [type |-> "undefined"]

Inherited(key) == [type |-> IF key = "__proto__" THEN "object" ELSE "function", of |-> key]

\* the property names an object literal inherits from Object.prototype
ObjectPrototypeKeys ==
    { "constructor", "toString", "toLocaleString", "valueOf", "hasOwnProperty",
      "isPrototypeOf", "propertyIsEnumerable", "__proto__", "__defineGetter__",
      "__defineSetter__", "__lookupGetter__", "__lookupSetter__" }

\* factors[key] for an object literal `factors` of numbers: the own
\* property, else the property inherited from Object.prototype, else
\* undefined
Lookup(factors, key) ==
    IF key \in DOMAIN factors THEN Number(factors[key])
    ELSE IF key \in ObjectPrototypeKeys THEN Inherited(key)
    ELSE Undefined

\* value || fallback: the fallback for undefined and for 0, else the value
OrElse(value, fallback) ==
    IF value.type = "undefined" \/ (value.type = "number" /\ value.val = 0)
    THEN Number(fallback)
    ELSE value

\* the number a feature is: every category the generator assigns to a node
\* names an own property of `factors`
NumberOf(value) == value.val

\* factors with the tech_hub window starting an hour later
areaFactorsLate(timeOfDay) ==
    [ commercial  |-> IF timeOfDay >= 9 /\ timeOfDay <= 21 THEN 1200000 ELSE 800000,
      tech_hub    |-> IF timeOfDay >= 9 /\ timeOfDay <= 19 THEN 1300000 ELSE 700000,
      residential |-> IF (timeOfDay >= 6 /\ timeOfDay <= 9) \/ (timeOfDay >= 18 /\ timeOfDay <= 22)
                      THEN 1100000 ELSE 900000,
      mixed       |-> 1000000,
      junction    |-> 1100000 ]

\* the object `factors` of getAreaFeature, in 1e-6
areaFactors(timeOfDay) ==
    [ commercial  |-> IF timeOfDay >= 9 /\ timeOfDay <= 21 THEN 1200000 ELSE 800000,
      tech_hub    |-> IF timeOfDay >= 8 /\ timeOfDay <= 19 THEN 1300000 ELSE 700000,
      residential |-> IF (timeOfDay >= 6 /\ timeOfDay <= 9) \/ (timeOfDay >= 18 /\ timeOfDay <= 22)
                      THEN 1100000 ELSE 900000,
      mixed       |-> 1000000,
      junction    |-> 1100000 ]

\* factors[areaType] || 1.0
getAreaFeature(areaType, timeOfDay) == OrElse(Lookup(areaFactors(timeOfDay), areaType), 1000000)

\* the object `factors` of getRoadTypeFeature, in 1e-6
roadFactors == [highway |-> 1200000, arterial |-> 1000000, local |-> 800000]

\* factors[roadType] || 1.0
getRoadTypeFeature(roadType) == OrElse(Lookup(roadFactors, roadType), 1000000)

\* weather === 'rainy' ? 1.3 : 1.0
WeatherFeature(weather) == IF weather = "rainy" THEN 1300000 ELSE 1000000

\* weather === 'rainy' ? 1.2 : 1.0, in 1e-3
WeatherFactor(weather) == IF weather = "rainy" THEN 1200 ELSE 1000

getBaseCongestion(node, timeOfDay, dayType, r) ==
    (getTimeFeature(timeOfDay, dayType, r)
     + NumberOf(getAreaFeature(node.features.area_type, timeOfDay))) \div 2

\* this.edges.filter(edge => edge.source === nodeId || edge.target === nodeId),
\* as the ascending sequence of the edges' positions
RECURSIVE ConnectedFrom(_, _, _)
ConnectedFrom(es, nodeId, k) ==
    IF k > Len(es) THEN <<>>
    ELSE IF es[k].source = nodeId \/ es[k].target = nodeId
         THEN <<k>> \o ConnectedFrom(es, nodeId, k + 1)
         ELSE ConnectedFrom(es, nodeId, k + 1)

\* the edges that leave the node only
RECURSIVE OutgoingFrom(_, _, _)
OutgoingFrom(es, nodeId, k) ==
    IF k > Len(es) THEN <<>>
    ELSE IF es[k].source = nodeId
         THEN <<k>> \o OutgoingFrom(es, nodeId, k + 1)
         ELSE OutgoingFrom(es, nodeId, k + 1)

OutgoingEdges(es, nodeId) == OutgoingFrom(es, nodeId, 1)

ConnectedEdges(es, nodeId) == ConnectedFrom(es, nodeId, 1)

\* this.nodes.find(n => n.id === neighborId): the position, 0 for undefined
FindNode(ns, id) ==
    IF \E k \in 1..Len(ns) : ns[k].id = id
    THEN CHOOSE k \in 1..Len(ns) : ns[k].id = id /\ \A j \in 1..(k - 1) : ns[j].id # id
    ELSE 0

\* neighborCongestion * weatherFactor / edge.distance, in 1e-3 per km;
\* the numerator is positive, so a distance of 0 gives Infinity
InfluenceTerm(neighborCongestion, weatherFactor, distance) ==
    IF distance = 0 THEN [inf |-> TRUE, val |-> 0]
    ELSE [inf |-> FALSE,
          val |-> ((((neighborCongestion \div 1000) * weatherFactor) \div 1000) * 100000)
                  \div distance]

AddFloat(a, b) == [inf |-> a.inf \/ b.inf, val |-> IF a.inf \/ b.inf THEN 0 ELSE a.val + b.val]

RECURSIVE InfluenceLoop(_, _, _, _, _, _, _, _, _, _)
\* the for loop of getNeighborInfluence from the t-th connected edge, the
\* getTimeFeature draw of the t-th edge being at position pos + t - 1
InfluenceLoop(ns, es, conn, nodeId, timeOfDay, weather, dayType, tape, pos, t) ==
    IF t > Len(conn) THEN [inf |-> FALSE, val |-> 0]
    ELSE LET edge       == es[conn[t]]
             neighborId == IF edge.source = nodeId THEN edge.target ELSE edge.source
             n          == FindNode(ns, neighborId)
             rest       == InfluenceLoop(ns, es, conn, nodeId, timeOfDay, weather,
                                         dayType, tape, pos, t + 1)
         IN  IF n = 0 THEN rest
             ELSE AddFloat(
                    InfluenceTerm(
                        getBaseCongestion(ns[n], timeOfDay, dayType, Rand(tape, pos + t - 1)),
                        WeatherFactor(weather), edge.distance),
                    rest)

\* getNeighborInfluence, in 1e-3; pos is the tape position of its first draw
getNeighborInfluence(ns, es, nodeId, timeOfDay, weather, dayType, tape, pos) ==
    LET connectedEdges == ConnectedEdges(es, nodeId)
        total == InfluenceLoop(ns, es, connectedEdges, nodeId, timeOfDay, weather,
                               dayType, tape, pos, 1)
    IN  IF Len(connectedEdges) = 0 THEN [inf |-> FALSE, val |-> 0]
        ELSE [inf |-> total.inf,
              val |-> IF total.inf THEN 0 ELSE total.val \div Len(connectedEdges)]

\* the number of Math.random() calls getNeighborInfluence makes for a node
InfluenceDraws(ns, es, nodeId) ==
    LET conn == ConnectedEdges(es, nodeId)
    IN  Cardinality({ t \in 1..Len(conn) :
            FindNode(ns, IF es[conn[t]].source = nodeId THEN es[conn[t]].target
                         ELSE es[conn[t]].source) # 0 })

\* 1e6 / (1 + exp(-x / 2)) for x = 0..16, rounded
SigmoidTable == << 500000, 622459, 731059, 817574, 880797, 924142, 952574, 970688,
                   982014, 989013, 993307, 995930, 997527, 998499, 999089, 999447,
                   999665 >>

\* 1 / (1 + exp(-x)) for x >= 0 in 1e-6: linear between the table's points,
\* and the table's last value from 8.0 on
SigmoidPos(x) ==
    LET k == x \div 500000
    IN  IF k >= 16 THEN SigmoidTable[17]
        ELSE SigmoidTable[k + 1]
             + ((SigmoidTable[k + 2] - SigmoidTable[k + 1]) * ((x % 500000) \div 1000)) \div 500

\* 1 / (1 + Math.exp(-congestionLevel)), in 1e-6; Math.exp(-Infinity) is 0
Sigmoid(raw) ==
    IF raw.inf THEN 1000000
    ELSE IF raw.val >= 0 THEN SigmoidPos(raw.val)
    ELSE 1000000 - SigmoidPos(-raw.val)

\* weights[k] * feature, in 1e-6
Weighted(w, feature) == (w * feature) \div 1000

\* the weighted sum of predictCongestion
RawScore(weights, timeFeature, weatherFeature, areaFeature, roadFeature, neighborInfluence) ==
    [inf |-> neighborInfluence.inf,
     val |-> IF neighborInfluence.inf THEN 0
             ELSE Weighted(weights[1], timeFeature) + Weighted(weights[2], weatherFeature)
                  + Weighted(weights[3], areaFeature) + Weighted(weights[4], roadFeature)
                  + neighborInfluence.val * 300]

\* Math.max(0.1, Math.min(1.0, congestionLevel))
ClampActivation(c) == Max(100000, Min(1000000, c))

\* noise of twice the amplitude: (Math.random() - 0.5) * 0.2
NoiseDouble(r) == ((2 * r - RandomRes) * 100000) \div RandomRes

\* noise that is never negative: Math.random() * 0.1
NoiseOneSided(r) == (r * 100000) \div RandomRes

\* (Math.random() - 0.5) * 0.1, in 1e-6
Noise(r) == ((2 * r - RandomRes) * 50000) \div RandomRes

\* a final clamp without its upper limit
ClampFinalNoUpper(c) == Max(50000, c)

\* Math.max(0.05, Math.min(0.95, congestionLevel))
ClampFinal(c) == Max(50000, Min(950000, c))

\* Math.round(x / den) for x >= 0: half rounds up
RoundDiv(x, den) == (x + den \div 2) \div den

\* Math.round(congestionLevel * 1000) / 1000, in 1e-3
RoundLevel(c) == RoundDiv(c, 1000)

\* Math.round((40 * (1 - congestionLevel)) * 10) / 10, in 1e-1
PredictedSpeed(c) == RoundDiv(400 * (1000000 - c), 1000000)

\* Math.round(congestionLevel * 180 * 10) / 10, in 1e-1
WaitTime(c) == RoundDiv(1800 * c, 1000000)

\* a volume that can reach 300: Math.floor(Math.random() * 251) + 50
VolumeUpTo300(r) == RandomInt(r, 251) + 50

\* Math.floor(Math.random() * 250) + 50
Volume(r) == RandomInt(r, 250) + 50

\* congestionLevel after line 175 for node i: the pre-noise value
PreNoise(ns, es, ws, i, timeOfDay, weather, dayType, tape, pos) ==
    LET node == ns[i]
        timeFeature == getTimeFeature(timeOfDay, dayType, Rand(tape, pos))
        neighborInfluence ==
            getNeighborInfluence(ns, es, node.id, timeOfDay, weather, dayType, tape, pos + 1)
    IN  ClampActivation(Sigmoid(
            RawScore(ws[i], timeFeature, WeatherFeature(weather),
                     NumberOf(getAreaFeature(node.features.area_type, timeOfDay)),
                     NumberOf(getRoadTypeFeature(node.road_type)), neighborInfluence)))

\* congestionLevel after line 179 for node i
FinalLevel(ns, es, ws, i, timeOfDay, weather, dayType, tape, pos) ==
    ClampFinal(PreNoise(ns, es, ws, i, timeOfDay, weather, dayType, tape, pos)
               + Noise(Rand(tape, pos + 1 + InfluenceDraws(ns, es, ns[i].id))))

\* the TrafficPrediction stored for node i (lines 181-186)
PredictNode(ns, es, ws, i, timeOfDay, weather, dayType, tape, pos) ==
    LET congestionLevel == FinalLevel(ns, es, ws, i, timeOfDay, weather, dayType, tape, pos)
    IN  [ congestion_level |-> RoundLevel(congestionLevel),
          predicted_speed  |-> PredictedSpeed(congestionLevel),
          volume           |-> Volume(Rand(tape, pos + 2 + InfluenceDraws(ns, es, ns[i].id))),
          wait_time        |-> WaitTime(congestionLevel) ]

\* the Math.random() calls of one iteration of predictCongestion's loop
NodeDraws(ns, es, i) == 3 + InfluenceDraws(ns, es, ns[i].id)

RECURSIVE DrawsBefore(_, _, _)
\* the Math.random() calls of the iterations before node i
DrawsBefore(ns, es, i) ==
    IF i <= 1 THEN 0 ELSE DrawsBefore(ns, es, i - 1) + NodeDraws(ns, es, i - 1)

NodeIds(ns) == { ns[i].id : i \in 1..Len(ns) }

\* predictions[key] = value on the record acc
Assign(acc, key, value) ==
    [k \in (DOMAIN acc) \cup {key} |-> IF k = key THEN value ELSE acc[k]]

\* a loop that stops before the last node
MoreNodesButLast(i, length) == i < length

\* i < this.nodes.length, for the 1-based position i
MoreNodes(i, length) == i <= length

RECURSIVE PredictLoop(_, _, _, _, _, _, _, _, _, _)
\* the for loop of predictCongestion from node i on, acc being the
\* predictions stored so far and pos the tape position of the next
\* Math.random()
PredictLoop(ns, es, ws, timeOfDay, weather, dayType, tape, pos, i, acc) ==
    IF ~MoreNodes(i, Len(ns)) THEN acc
    ELSE PredictLoop(ns, es, ws, timeOfDay, weather, dayType, tape,
                     pos + NodeDraws(ns, es, i), i + 1,
                     Assign(acc, ns[i].id,
                            PredictNode(ns, es, ws, i, timeOfDay, weather, dayType, tape, pos)))

\* predictCongestion(timeOfDay, weather, dayType): the returned record, the
\* call's first Math.random() being at tape position start
predictCongestion(ns, es, ws, timeOfDay, weather, dayType, tape, start) ==
    PredictLoop(ns, es, ws, timeOfDay, weather, dayType, tape, start, 1, <<>>)

\* the pre-noise values of the same call, per node id (not part of the
\* returned record: kept to relate a result to the value it was drawn around)
PreNoiseOf(ns, es, ws, timeOfDay, weather, dayType, tape, start) ==
    [ id \in NodeIds(ns) |->
        LET i == CHOOSE k \in 1..Len(ns) :
                    ns[k].id = id /\ \A j \in (k + 1)..Len(ns) : ns[j].id # id
        IN  PreNoise(ns, es, ws, i, timeOfDay, weather, dayType, tape,
                     start + DrawsBefore(ns, es, i)) ]

\* the Math.random() calls of a whole predictCongestion call
PredictDraws(ns, es) == DrawsBefore(ns, es, Len(ns) + 1)

ModelInfo ==
    [ algorithm    |-> "Graph Convolutional Network (GCN)",
      features     |-> <<"time_of_day", "weather", "area_type", "road_type">>,
      accuracy     |-> 87,
      last_trained |-> "2024-01-15" ]


--------------------------------------------------------------------------
(* generateDataset *)

\* String(n).padStart(2, '0') for 0 <= n <= 99, as its two digits; a longer
\* number is not padded
PadStart2(n) == IF n < 10 THEN <<0, n>> ELSE IF n < 100 THEN <<n \div 10, n % 10>> ELSE <<n>>

\* Math.random() > 0.7
Above07(r) == 10 * r > 7 * RandomRes

\* a row whose prediction is read at the first node's id
DatasetRowFirstNode(ns, es, ws, tape) ==
    LET timeOfDay   == RandomInt(Rand(tape, 0), 24)
        weather     == IF Above07(Rand(tape, 1)) THEN "rainy" ELSE "sunny"
        dayType     == IF Above07(Rand(tape, 2)) THEN "weekend" ELSE "weekday"
        node        == ns[RandomInt(Rand(tape, 3), Len(ns)) + 1]
        predicted   == predictCongestion(ns, es, ws, timeOfDay, weather, dayType, tape, 4)
        prediction  == predicted[ns[1].id]
        day         == RandomInt(Rand(tape, 4 + PredictDraws(ns, es)), 30) + 1
    IN  [ timestamp         |-> [date |-> <<2024, 1>>, day |-> PadStart2(day),
                                 hour |-> PadStart2(timeOfDay), rest |-> ":00:00"],
          intersection_id   |-> node.id,
          intersection_name |-> node.name,
          lat               |-> node.lat,
          lng               |-> node.lng,
          road_type         |-> node.road_type,
          area_type         |-> node.features.area_type,
          time_of_day       |-> timeOfDay,
          weather           |-> weather,
          day_type          |-> dayType,
          congestion_level  |-> prediction.congestion_level,
          predicted_speed   |-> prediction.predicted_speed,
          volume            |-> prediction.volume,
          wait_time         |-> prediction.wait_time ]

\* the row pushed by one iteration of generateDataset's loop, its
\* Math.random() calls read from the tape in program order
DatasetRow(ns, es, ws, tape) ==
    LET timeOfDay   == RandomInt(Rand(tape, 0), 24)
        weather     == IF Above07(Rand(tape, 1)) THEN "rainy" ELSE "sunny"
        dayType     == IF Above07(Rand(tape, 2)) THEN "weekend" ELSE "weekday"
        node        == ns[RandomInt(Rand(tape, 3), Len(ns)) + 1]
        predicted   == predictCongestion(ns, es, ws, timeOfDay, weather, dayType, tape, 4)
        prediction  == predicted[node.id]
        day         == RandomInt(Rand(tape, 4 + PredictDraws(ns, es)), 30) + 1
    IN  [ timestamp         |-> [date |-> <<2024, 1>>, day |-> PadStart2(day),
                                 hour |-> PadStart2(timeOfDay), rest |-> ":00:00"],
          intersection_id   |-> node.id,
          intersection_name |-> node.name,
          lat               |-> node.lat,
          lng               |-> node.lng,
          road_type         |-> node.road_type,
          area_type         |-> node.features.area_type,
          time_of_day       |-> timeOfDay,
          weather           |-> weather,
          day_type          |-> dayType,
          congestion_level  |-> prediction.congestion_level,
          predicted_speed   |-> prediction.predicted_speed,
          volume            |-> prediction.volume,
          wait_time         |-> prediction.wait_time ]

\* generateDataset(1000) in exportData
ExportSampleCount == 1000

--------------------------------------------------------------------------
(* Draw plans: the bounded sets the Math.random() results are taken from *)

Draws5(latS, lngS, roadS, capS, sigS) == [lat : latS, lng : lngS, road : roadS, cap : capS, sig : sigS]

\* the calls of predictTraffic that can be in flight together
Slots == 1..2

Idle == [state |-> "idle"]

\* null
Null == [null |-> TRUE]

\* the state at the entry of the TrafficDataGenerator constructor
InitGenerator(areaLists) ==
    /\ areas \in areaLists
    /\ pc = "nodes"
    /\ areaIdx = 1
    /\ nodes = <<>>
    /\ edgeIdx = 1
    /\ edges = <<>>
    /\ gnnWeights = <<>>

\* the state the constructor leaves when the anchor list has no area: the
\* loops of generateBangaloreNodes, generateEdges and initializeGNN run no
\* iteration
InitEmptyGenerator ==
    /\ areas = <<>>
    /\ pc = "ready"
    /\ areaIdx = 1
    /\ nodes = <<>>
    /\ edgeIdx = 1
    /\ edges = <<>>
    /\ gnnWeights = <<>>

--------------------------------------------------------------------------
(* The constructor *)

\* one iteration of the outer loop of generateBangaloreNodes; after the
\* last one the constructor goes on to generateEdges
GenerateArea(countDraws, nodePlan) ==
    /\ pc = "nodes"
    /\ areaIdx <= Len(areas)
    /\ \E rc \in Cyc(countDraws, areaIdx - 1) :
         \E ns \in AreaNodeLists(nodes, areas[areaIdx], IntersectionCount(rc), 0, nodePlan) :
            nodes' = ns
    /\ areaIdx' = areaIdx + 1
    /\ pc' = IF areaIdx = Len(areas) THEN "edges" ELSE "nodes"
    /\ UNCHANGED <<areas, edgeIdx, edges, gnnWeights, calls, sampling, graphCall, frame, hookVars>>

\* one iteration of the outer loop of generateEdges; after the last one the
\* constructor goes on to initializeGNN
GenerateEdges(connPlan, roadDraws) ==
    /\ pc = "edges"
    /\ edgeIdx <= Len(nodes)
    /\ \E rc \in Cyc(connPlan, edgeIdx - 1) :
         \E rd \in [1..Min(ConnectionCount(rc), Len(nodes) - 1) -> roadDraws] :
            edges' = EdgesAfter(edges, nodes, edgeIdx, rc, rd)
    /\ edgeIdx' = edgeIdx + 1
    /\ pc' = IF edgeIdx = Len(nodes) THEN "gnn" ELSE "edges"
    /\ UNCHANGED <<areas, areaIdx, nodes, gnnWeights, calls, sampling, graphCall, frame, hookVars>>

initializeGNN(weightPlan) ==
    /\ pc = "gnn"
    /\ \E ws \in WeightLists(<<>>, Len(nodes), weightPlan) : gnnWeights' = ws
    /\ pc' = "ready"
    /\ UNCHANGED <<areas, areaIdx, nodes, edgeIdx, edges, calls, sampling, graphCall, frame, hookVars>>

--------------------------------------------------------------------------
(* The API: predictTraffic and exportData; generateDataset *)

\* no generateDataset loop is running: a handler runs to completion before
\* the next one starts
NoLoop == sampling.state # "running"

\* a getGraphData that leaves the edges out
getGraphDataNoEdges(ns, es) == [nodes |-> ns, edges |-> <<>>]

\* getGraphData(): the node list and the edge list
getGraphData(ns, es) == [nodes |-> ns, edges |-> es]

\* the predictTraffic calls whose timer has not fired.  Every call sets a
\* timer of the same delay, 150 ms, so the timers fire in the order in
\* which the calls were made: a pending call keeps in `after` the calls
\* that were pending when it was made and have not returned since
PendingCalls == { d \in Slots : calls[d].state = "pending" }

\* timers that fire in any order
TimerDueAnyOrder(c) == TRUE

\* the timer of call c is the next of the predictTraffic timers to fire
TimerDue(c) == calls[c].after = {}

\* the request parameters updatePredictions takes from the simulation state
RequestParams(sim) ==
    [time_of_day |-> sim.time_of_day, weather |-> sim.weather, day_type |-> sim.day_type]

\* dependencies that hold the hour only
ParamsChangedHourOnly(a, b) == a.time_of_day # b.time_of_day

\* the dependencies of updatePredictions differ between two renders
ParamsChanged(a, b) == RequestParams(a) # RequestParams(b)

\* the dependencies of the auto-play effect differ between two renders
TimerChanged(a, b) == a.isPlaying # b.isPlaying \/ a.speed # b.speed

\* The render that follows a handler of the hook, and its effects.  The
\* handler leaves simulationState sim, graphData data, predictions preds,
\* isLoading loading, error err and the awaited calls hpc.  The prediction
\* effect runs when the graph has nodes and one of its dependencies changed:
\* updatePredictions sets isLoading, clears error and calls predictTraffic
\* with the rendered parameters, taking a call slot of `slots`.  The
\* auto-play effect runs when isPlaying or speed changed: the interval is
\* cleared, and set again with 2000 / speed when isPlaying.
Render(slots, sim, data, preds, loading, err, hpc) ==
    LET runs == /\ Len(data.nodes) > 0
                /\ \/ ParamsChanged(simulationState, sim)
                   \/ Len(data.nodes) # Len(graphData.nodes)
    IN  /\ simulationState' = sim
        /\ graphData' = data
        /\ predictions' = preds
        /\ interval' = IF TimerChanged(simulationState, sim)
                       THEN IF sim.isPlaying THEN [delay |-> 2000 \div sim.speed] ELSE Null
                       ELSE interval
        /\ IF runs
           THEN \E c \in slots :
                  /\ calls[c].state # "pending"
                  /\ calls' = [calls EXCEPT ![c] =
                                 [state |-> "pending", params |-> RequestParams(sim),
                                  after |-> PendingCalls]]
                  /\ isLoading' = TRUE
                  /\ error' = Null
                  /\ hookPc' = [hpc EXCEPT !.updatePredictions = @ \cup {c}]
           ELSE /\ calls' = calls
                /\ isLoading' = loading
                /\ error' = err
                /\ hookPc' = hpc

\* fetchGraph() is called: the call waits for its timer
fetchGraph ==
    /\ pc = "ready"
    /\ NoLoop
    /\ graphCall.state # "pending"
    /\ graphCall' = [state |-> "pending", by |-> "direct"]
    /\ UNCHANGED <<graphVars, calls, sampling, frame, hookVars>>

\* the timer of fetchGraph fires: the call returns getGraphData().  When
\* loadGraph of the hook awaits it, loadGraph goes on: setGraphData(data),
\* then setIsLoading(false)
fetchGraphReturn(slots) ==
    /\ graphCall.state = "pending"
    /\ NoLoop
    /\ LET data == getGraphData(nodes, edges)
       IN  /\ graphCall' = [state |-> "returned", by |-> graphCall.by, response |-> data]
           /\ IF graphCall.by = "hook"
              THEN Render(slots, simulationState, data, predictions, FALSE, error,
                          [hookPc EXCEPT !.loadGraph = FALSE])
              ELSE UNCHANGED <<calls, hookVars>>
    /\ UNCHANGED <<graphVars, sampling, frame>>

\* TrafficAPI.fetchGraph() rejects while loadGraph of the hook awaits it:
\* the catch block runs setError('Failed to load graph data'), the finally
\* block setIsLoading(false); graphData stays empty, so the render that
\* follows asks for no prediction.  (fetchGraph of api.ts has no statement
\* that throws: the step is the hook's answer to a rejection, whatever
\* raises it.)
fetchGraphRejects ==
    /\ graphCall.state = "pending"
    /\ graphCall.by = "hook"
    /\ NoLoop
    /\ graphCall' = [state |-> "failed", by |-> "hook"]
    /\ error' = [message |-> "Failed to load graph data"]
    /\ isLoading' = FALSE
    /\ hookPc' = [hookPc EXCEPT !.loadGraph = FALSE]
    /\ UNCHANGED <<graphVars, calls, sampling, frame, simulationState, graphData,
                   predictions, interval>>

\* predictTraffic(params) is called: the call waits for its timer
predictTraffic(c, hours, weathers, dayTypes) ==
    /\ pc = "ready"
    /\ NoLoop
    /\ calls[c].state # "pending"
    /\ \E h \in hours, w \in weathers, d \in dayTypes :
         calls' = [calls EXCEPT ![c] =
                     [state |-> "pending",
                      params |-> [time_of_day |-> h, weather |-> w, day_type |-> d],
                      after |-> PendingCalls]]
    /\ UNCHANGED <<graphVars, sampling, graphCall, frame, hookVars>>

\* params kept in one place shared by the calls: those of slot 1 once it
\* has been called
ParamsOfFirst(c) == IF "params" \in DOMAIN calls[1] THEN calls[1].params ELSE calls[c].params

\* the params the call of slot c was made with
ParamsOf(c) == calls[c].params

\* the timer of call c fires: predictCongestion runs and the call returns;
\* `others` keeps the calls that were in flight at that moment.
\* When updatePredictions of the hook awaits it, updatePredictions goes on:
\* setPredictions(response), then setIsLoading(false)
predictTrafficReturn(c, tapes) ==
    /\ pc = "ready"
    /\ NoLoop
    /\ calls[c].state = "pending"
    /\ TimerDue(c)
    /\ \E tape \in tapes :
         LET p == ParamsOf(c)
             response == [predictions |->
                              predictCongestion(nodes, edges, gnnWeights, p.time_of_day,
                                                p.weather, p.day_type, tape, 0),
                          model_info |-> ModelInfo]
         IN  /\ calls' = [d \in Slots |->
                   IF d = c
                   THEN [state    |-> "returned",
                         params   |-> calls[c].params,
                         response |-> response,
                         preNoise |-> PreNoiseOf(nodes, edges, gnnWeights, p.time_of_day,
                                                 p.weather, p.day_type, tape, 0),
                         others   |-> { e \in Slots \ {c} : calls[e].state = "pending" }]
                   ELSE IF calls[d].state = "pending"
                        THEN [calls[d] EXCEPT !.after = @ \ {c}]
                        ELSE calls[d]]
             /\ IF c \in hookPc.updatePredictions
                THEN /\ predictions' = response
                     /\ isLoading' = FALSE
                     /\ hookPc' = [hookPc EXCEPT !.updatePredictions = @ \ {c}]
                     /\ UNCHANGED <<simulationState, graphData, error, interval>>
                ELSE UNCHANGED hookVars
    /\ UNCHANGED <<graphVars, sampling, graphCall, frame>>

\* exportData() is called: the call waits for its timer
exportData ==
    /\ pc = "ready"
    /\ sampling.state \in {"idle", "returned", "failed"}
    /\ sampling' = [state |-> "waiting", by |-> "export"]
    /\ UNCHANGED <<graphVars, calls, graphCall, frame, hookVars>>

\* the timer of exportData fires: generateDataset(1000) is entered
exportDataTimer ==
    /\ sampling.state = "waiting"
    /\ sampling' = [state |-> "running", by |-> "export",
                    sampleCount |-> ExportSampleCount, length |-> 0]
    /\ UNCHANGED <<graphVars, calls, graphCall, frame, hookVars>>

\* generateDataset(sampleCount) is called directly
generateDataset(sampleCounts) ==
    /\ pc = "ready"
    /\ sampling.state \in {"idle", "returned", "failed"}
    /\ \E n \in sampleCounts :
         sampling' = [state |-> "running", by |-> "direct", sampleCount |-> n, length |-> 0]
    /\ UNCHANGED <<graphVars, calls, graphCall, frame, hookVars>>

\* a loop that runs once more: i <= sampleCount
LoopContinuesInclusive(i, sampleCount) == i <= sampleCount

\* i < sampleCount
LoopContinues(i, sampleCount) == i < sampleCount

\* one iteration of generateDataset's loop.  With a node list that has
\* nodes a row is pushed; the dataset is kept as its length and the row
\* pushed last: a pushed row is never read or changed again.  With an empty
\* node list this.nodes[0] is undefined and reading node.id throws a
\* TypeError: generateDataset ends by the exception, exportData rejects
\* with it, and exportData of the hook, when it awaits it, catches it:
\* setError('Failed to export data'), then setIsLoading(false).
SampleRow(tapes) ==
    /\ sampling.state = "running"
    /\ LoopContinues(sampling.length, sampling.sampleCount)
    /\ IF Len(nodes) = 0
       THEN /\ sampling' = [state |-> "failed", by |-> sampling.by,
                            sampleCount |-> sampling.sampleCount,
                            length |-> sampling.length, error |-> "TypeError"]
            /\ IF sampling.by = "export" /\ hookPc.exportData
               THEN /\ error' = [message |-> "Failed to export data"]
                    /\ isLoading' = FALSE
                    /\ hookPc' = [hookPc EXCEPT !.exportData = FALSE]
                    /\ UNCHANGED <<simulationState, graphData, predictions, interval>>
               ELSE UNCHANGED hookVars
       ELSE /\ \E tape \in tapes :
                 sampling' = [state |-> "running", by |-> sampling.by,
                              sampleCount |-> sampling.sampleCount,
                              length |-> sampling.length + 1,
                              row |-> DatasetRow(nodes, edges, gnnWeights, tape)]
            /\ UNCHANGED hookVars
    /\ UNCHANGED <<graphVars, calls, graphCall, frame>>

\* the loop ends: generateDataset returns the dataset, and exportData
\* returns it with count: dataset.length.  When exportData of the hook
\* awaits it, that function goes on: the CSV is built and downloaded, then
\* setIsLoading(false)
ReturnDataset ==
    /\ sampling.state = "running"
    /\ ~LoopContinues(sampling.length, sampling.sampleCount)
    /\ sampling' = [f \in (DOMAIN sampling) \cup (IF sampling.by = "export" THEN {"count"} ELSE {}) |->
                       IF f = "state" THEN "returned"
                       ELSE IF f = "count" THEN sampling.length
                       ELSE sampling[f]]
    /\ IF sampling.by = "export" /\ hookPc.exportData
       THEN /\ isLoading' = FALSE
            /\ hookPc' = [hookPc EXCEPT !.exportData = FALSE]
            /\ UNCHANGED <<simulationState, graphData, predictions, error, interval>>
       ELSE UNCHANGED hookVars
    /\ UNCHANGED <<graphVars, calls, graphCall, frame>>

--------------------------------------------------------------------------
(* useTrafficSimulation *)

\* the simulation state of useState and of resetSimulation
DefaultSimulationState ==
    [time_of_day |-> 9, weather |-> "sunny", day_type |-> "weekday",
     isPlaying |-> FALSE, speed |-> 1]

\* an update laid over the default state: { ...defaults, ...updates }
MergeOntoDefault(prev, updates) ==
    [f \in (DOMAIN prev) \cup (DOMAIN updates) |->
        IF f \in DOMAIN updates THEN updates[f] ELSE DefaultSimulationState[f]]

\* { ...prev, ...updates }
Merge(prev, updates) ==
    [f \in (DOMAIN prev) \cup (DOMAIN updates) |->
        IF f \in DOMAIN updates THEN updates[f] ELSE prev[f]]

\* the first render of the hook and its effects: loadGraph() sets isLoading
\* and calls fetchGraph; graphData has no node, so no prediction is asked
\* for; the auto-play effect sets no interval unless isPlaying
loadGraph ==
    /\ ~hookPc.mounted
    /\ pc = "ready"
    /\ NoLoop
    /\ graphCall.state # "pending"
    /\ graphCall' = [state |-> "pending", by |-> "hook"]
    /\ isLoading' = TRUE
    /\ interval' = IF simulationState.isPlaying
                   THEN [delay |-> 2000 \div simulationState.speed] ELSE Null
    /\ hookPc' = [hookPc EXCEPT !.mounted = TRUE, !.loadGraph = TRUE]
    /\ UNCHANGED <<graphVars, calls, sampling, frame, simulationState, graphData,
                   predictions, error>>

\* updateSimulation(u) for a partial state u of `updates`
updateSimulation(slots, updates) ==
    /\ hookPc.mounted
    /\ NoLoop
    /\ \E u \in updates :
         Render(slots, Merge(simulationState, u), graphData, predictions, isLoading,
                error, hookPc)
    /\ UNCHANGED <<graphVars, sampling, graphCall, frame>>

\* an hour that goes on counting after 23
NextHourUnwrapped(hour) == hour + 1

\* (prev.time_of_day + 1) % 24
NextHour(hour) == (hour + 1) % 24

\* the interval timer of the auto-play effect fires
autoPlayTick(slots) ==
    /\ interval # Null
    /\ NoLoop
    /\ Render(slots,
              [simulationState EXCEPT !.time_of_day = NextHour(@)],
              graphData, predictions, isLoading, error, hookPc)
    /\ UNCHANGED <<graphVars, sampling, graphCall, frame>>

resetSimulation(slots) ==
    /\ hookPc.mounted
    /\ NoLoop
    /\ Render(slots, DefaultSimulationState, graphData, predictions, isLoading, error,
              hookPc)
    /\ UNCHANGED <<graphVars, sampling, graphCall, frame>>

\* exportData of the hook is called: setIsLoading(true), then
\* TrafficAPI.exportData() is awaited
hookExportData ==
    /\ hookPc.mounted
    /\ NoLoop
    /\ ~hookPc.exportData
    /\ sampling.state \in {"idle", "returned", "failed"}
    /\ sampling' = [state |-> "waiting", by |-> "export"]
    /\ isLoading' = TRUE
    /\ hookPc' = [hookPc EXCEPT !.exportData = TRUE]
    /\ UNCHANGED <<graphVars, calls, graphCall, frame, simulationState, graphData,
                   predictions, error, interval>>

--------------------------------------------------------------------------
(* Calls of the feature functions *)

\* getAreaFeature(areaType, timeOfDay) is called and returns
callAreaFeature(areaTypes, hours) ==
    /\ pc = "ready"
    /\ \E a \in areaTypes, h \in hours :
         frame' = [fn |-> "getAreaFeature", areaType |-> a, timeOfDay |-> h,
                   result |-> getAreaFeature(a, h)]
    /\ UNCHANGED <<graphVars, calls, sampling, graphCall, hookVars>>

\* getTimeFeature(timeOfDay, dayType) is called and returns; r is the value
\* its Math.random() call returns
callTimeFeature(hours, dayTypes, draws) ==
    /\ pc = "ready"
    /\ \E h \in hours, d \in dayTypes, r \in draws :
         frame' = [fn |-> "getTimeFeature", timeOfDay |-> h, dayType |-> d,
                   result |-> getTimeFeature(h, d, r)]
    /\ UNCHANGED <<graphVars, calls, sampling, graphCall, hookVars>>

\* getNeighborInfluence(nodeId, timeOfDay, weather, dayType) is called for a
\* node of the list and returns; tape holds the Math.random() results of
\* the call
callNeighborInfluence(hours, weathers, dayTypes, tapes) ==
    /\ pc = "ready"
    /\ \E i \in 1..Len(nodes), h \in hours, w \in weathers, d \in dayTypes, tape \in tapes :
         frame' = [fn |-> "getNeighborInfluence", nodeId |-> nodes[i].id,
                   timeOfDay |-> h, weather |-> w, dayType |-> d, tape |-> tape,
                   result |-> getNeighborInfluence(nodes, edges, nodes[i].id, h, w, d, tape, 0)]
    /\ UNCHANGED <<graphVars, calls, sampling, graphCall, hookVars>>

\* one iteration of the loop of predictCongestion, for a node of the list:
\* the value of congestionLevel after line 175, the noise added at line
\* 178, the value after line 179 and the prediction stored
predictNode(hours, weathers, dayTypes, tapes) ==
    /\ pc = "ready"
    /\ \E i \in 1..Len(nodes), h \in hours, w \in weathers, d \in dayTypes, tape \in tapes :
         frame' = [fn |-> "predictCongestion", nodeId |-> nodes[i].id,
                   timeOfDay |-> h, weather |-> w, dayType |-> d, tape |-> tape,
                   preNoise |-> PreNoise(nodes, edges, gnnWeights, i, h, w, d, tape, 0),
                   noise |-> Noise(Rand(tape, 1 + InfluenceDraws(nodes, edges, nodes[i].id))),
                   level |-> FinalLevel(nodes, edges, gnnWeights, i, h, w, d, tape, 0),
                   prediction |-> PredictNode(nodes, edges, gnnWeights, i, h, w, d, tape, 0)]
    /\ UNCHANGED <<graphVars, calls, sampling, graphCall, hookVars>>

\* getRoadTypeFeature(roadType) is called and returns
callRoadTypeFeature(roadTypeSet) ==
    /\ pc = "ready"
    /\ \E t \in roadTypeSet :
         frame' = [fn |-> "getRoadTypeFeature", roadType |-> t,
                   result |-> getRoadTypeFeature(t)]
    /\ UNCHANGED <<graphVars, calls, sampling, graphCall, hookVars>>

--------------------------------------------------------------------------
(* Specifications *)

\* draws in the middle and at the upper end of [0,1); 0 is the lower end
Mid == RandomRes \div 2

Hi == RandomRes - 1

InitAPI ==
    /\ calls = [c \in Slots |-> Idle]
    /\ sampling = Idle
    /\ graphCall = Idle

\* the hook before its first render: the useState initial values, no effect
\* has run
InitHook ==
    /\ simulationState = DefaultSimulationState
    /\ graphData = [nodes |-> <<>>, edges |-> <<>>]
    /\ predictions = Null
    /\ isLoading = FALSE
    /\ error = Null
    /\ interval = Null
    /\ hookPc = [mounted |-> FALSE, loadGraph |-> FALSE, updatePredictions |-> {},
                 exportData |-> FALSE]

\* no feature function has been called
NoFrame == [fn |-> "none"]

InitSystem == InitAPI /\ InitHook /\ frame = NoFrame

Area(name) == majorAreas[CHOOSE k \in 1..Len(majorAreas) : majorAreas[k].name = name]

\* Graph construction with positions that can coincide, tie and fall on
\* either side of 5.0 km between the two areas
GraphAreas == { <<Area("Whitefield"), Area("Marathahalli")>> }

GraphCountPlan == << {0}, {0, 250} >>

GraphNodePlan ==
    << Draws5({Mid}, {0}, {0}, {0}, {0}),
       Draws5({Mid}, {0, Hi}, {Mid}, {Hi}, {Hi}),
       Draws5({0}, {Mid}, {Hi}, {Mid}, {Mid}),
       Draws5({Hi}, {Mid, Hi}, {0}, {0}, {Hi}),
       Draws5({250}, {250}, {Mid}, {Mid}, {0}) >>

GraphConnPlan == << {0, Hi}, {Mid}, {Hi}, {0, Mid} >>

GraphWeightPlan == << {<<0, 0, 0, 0>>, <<Hi, Hi, Hi, Hi>>}, {<<Mid, 0, Hi, 250>>} >>

InitGraph == InitGenerator(GraphAreas) /\ InitSystem

NextGraph ==
    \/ GenerateArea(GraphCountPlan, GraphNodePlan)
    \/ GenerateEdges(GraphConnPlan, {Mid})
    \/ initializeGNN(GraphWeightPlan)

SpecGraph == InitGraph /\ [][NextGraph]_vars

\* Node generation over the 15 areas
NodesCountPlan == << {0, Hi} >>

NodesNodePlan == << Draws5({Mid}, {Mid}, {Mid}, {Mid}, {Mid}) >>

InitNodes == InitGenerator({majorAreas}) /\ InitSystem

NextNodes == GenerateArea(NodesCountPlan, NodesNodePlan)

SpecNodes == InitNodes /\ [][NextNodes]_vars

\* Prediction calls on a few graphs: one or two areas of 4 nodes each, of
\* every area type, with and without a pair of coinciding nodes
Hours == -1..24

Weathers == {"sunny", "rainy", "foggy"}

DayTypes == {"weekday", "weekend", "holiday"}

PredictAreas ==
    { <<Area("MG Road")>>, <<Area("Indiranagar")>>,
      <<Area("Silk Board"), Area("BTM Layout")>>,
      <<Area("Whitefield"), Area("Marathahalli")>> }

PredictCountPlan == << {0} >>

PredictNodePlan ==
    << Draws5({Mid}, {0}, {0}, {0}, {0}),
       Draws5({Mid}, {0, Hi}, {Mid}, {Hi}, {Hi}),
       Draws5({0}, {Mid}, {Hi}, {Mid}, {Mid}),
       Draws5({Hi}, {Mid}, {0}, {0}, {Hi}) >>

PredictConnPlan == << {0}, {Hi}, {Mid}, {0} >>

PredictWeightPlan ==
    << {<<0, 0, 0, 0>>}, {<<Hi, Hi, Hi, Hi>>}, {<<Hi, 0, Mid, 250>>}, {<<250, 750, Hi, 0>>},
       {<<Mid, Mid, Mid, Mid>>} >>

PredictTapes == { <<0>>, <<Hi>>, <<0, Hi, Mid>>, <<Hi, 250, 0, 750, Mid>> }

Init == InitGenerator(PredictAreas) /\ InitSystem

Construct ==
    \/ GenerateArea(PredictCountPlan, PredictNodePlan)
    \/ GenerateEdges(PredictConnPlan, {Mid})
    \/ initializeGNN(PredictWeightPlan)

Next ==
    \/ Construct
    \/ predictTraffic(1, Hours, Weathers, DayTypes)
    \/ predictTrafficReturn(1, PredictTapes)

Spec == Init /\ [][Next]_vars

\* Two calls in flight on the same graph
RepeatAreas == { <<Area("MG Road")>>, <<Area("Silk Board"), Area("BTM Layout")>> }

RepeatHours == {3, 8}

InitRepeat == InitGenerator(RepeatAreas) /\ InitSystem

NextRepeat ==
    \/ Construct
    \/ \E c \in Slots : predictTraffic(c, RepeatHours, {"sunny", "rainy"}, {"weekday", "weekend"})
    \/ \E c \in Slots : predictTrafficReturn(c, PredictTapes)

SpecRepeat == InitRepeat /\ [][NextRepeat]_vars

\* Sample generation: generateDataset(n) for n up to MaxSamples, and
\* exportData
MaxSamples == 3

DatasetAreas == { <<Area("MG Road")>>, <<Area("Silk Board"), Area("BTM Layout")>> }

DatasetTapes == { <<0>>, <<Hi>>, <<Mid, Hi, 0, 250, 750>> }

InitDataset == InitGenerator(DatasetAreas) /\ InitSystem

NextDataset ==
    \/ Construct
    \/ generateDataset(0..MaxSamples)
    \/ exportData
    \/ exportDataTimer
    \/ SampleRow(DatasetTapes)
    \/ ReturnDataset

SpecDataset == InitDataset /\ [][NextDataset]_vars

\* The rows of generateDataset on the graphs of two neighbouring areas
RowAreas == { <<Area("Silk Board"), Area("BTM Layout")>> }

RowTapes == { <<0>>, <<Hi>>, <<Mid, Hi, 0, 250, 750>>, <<750, 0, Hi, 600, 250, Mid, 100>> }

InitRows == InitGenerator(RowAreas) /\ InitSystem

NextRows ==
    \/ Construct
    \/ generateDataset(0..MaxSamples)
    \/ SampleRow(RowTapes)
    \/ ReturnDataset

SpecRows == InitRows /\ [][NextRows]_vars

\* Calls in flight together: two slots, each called with any of four
\* scenarios
ConcurrentAreas == { <<Area("MG Road")>> }

ConcurrentTapes == { <<0, Hi, Mid>>, <<Hi, 250, 0, 750, Mid>> }

InitConcurrent == InitGenerator(ConcurrentAreas) /\ InitSystem

NextConcurrent ==
    \/ Construct
    \/ \E c \in Slots : predictTraffic(c, {3, 8}, {"sunny", "rainy"}, {"weekday"})
    \/ \E c \in Slots : predictTrafficReturn(c, ConcurrentTapes)

SpecConcurrent == InitConcurrent /\ [][NextConcurrent]_vars

\* fetchGraph, predictTraffic and exportData calls in any order on one graph
APIAreas == { <<Area("MG Road")>> }

APITapes == { <<Hi, 250, 0, 750, Mid>> }

InitAPICalls == InitGenerator(APIAreas) /\ InitSystem

NextAPICalls ==
    \/ Construct
    \/ fetchGraph
    \/ fetchGraphReturn(Slots)
    \/ predictTraffic(1, {8}, {"sunny", "rainy"}, {"weekday"})
    \/ predictTrafficReturn(1, APITapes)
    \/ exportData
    \/ exportDataTimer
    \/ SampleRow(APITapes)
    \/ ReturnDataset

SpecAPICalls == InitAPICalls /\ [][NextAPICalls]_vars

\* The feature functions on categories the generator assigns and on other
\* strings, at every hour and the two hours next to the range
AreaTypes == {"commercial", "tech_hub", "residential", "mixed", "junction"}

OtherCategories == {"industrial", "", "Commercial", "constructor", "toString"}

\* Math.random() results of getTimeFeature: the ends and the inside of [0, 1)
TimeDraws == {0, 1, 250, Mid, Hi}

InitFeatures == InitGenerator(APIAreas) /\ InitSystem

NextFeatures ==
    \/ Construct
    \/ callAreaFeature(AreaTypes \cup OtherCategories, Hours)
    \/ callRoadTypeFeature({"highway", "arterial", "local"} \cup OtherCategories)
    \/ callTimeFeature(Hours, DayTypes, TimeDraws)

SpecFeatures == InitFeatures /\ [][NextFeatures]_vars

\* The simulation hook on one graph: the time slider, the play button, the
\* speed slider, reset and the auto-play timer, one prediction request in
\* flight at a time
HookSlots == {1}

HookNodePlan ==
    << Draws5({Mid}, {0}, {0}, {0}, {0}),
       Draws5({Mid}, {Hi}, {Mid}, {Hi}, {Hi}),
       Draws5({0}, {Mid}, {Hi}, {Mid}, {Mid}),
       Draws5({Hi}, {Mid}, {0}, {0}, {Hi}) >>

HookTapes == { <<Hi, 250, 0, 750, Mid>> }

\* the values the controls of the panel pass to updateSimulation: two
\* positions of the time slider, the play button, two speeds
PanelUpdates ==
    { [time_of_day |-> h] : h \in {12, 23} }
    \cup { [isPlaying |-> ~simulationState.isPlaying] }
    \cup { [speed |-> v] : v \in {1, 10} }

InitSimulation == InitGenerator(APIAreas) /\ InitSystem

NextSimulation ==
    \/ GenerateArea(PredictCountPlan, HookNodePlan)
    \/ GenerateEdges(PredictConnPlan, {Mid})
    \/ initializeGNN(PredictWeightPlan)
    \/ loadGraph
    \/ fetchGraphReturn(HookSlots)
    \/ updateSimulation(HookSlots, PanelUpdates)
    \/ autoPlayTick(HookSlots)
    \/ resetSimulation(HookSlots)
    \/ predictTrafficReturn(1, HookTapes)

SpecSimulation == InitSimulation /\ [][NextSimulation]_vars

\* The hook with the time slider and the export: a prediction request and
\* an export can be in flight together
SliderUpdates == { [time_of_day |-> h] : h \in {12, 23} }

NextLoading ==
    \/ GenerateArea(PredictCountPlan, HookNodePlan)
    \/ GenerateEdges(PredictConnPlan, {Mid})
    \/ initializeGNN(PredictWeightPlan)
    \/ loadGraph
    \/ fetchGraphReturn(HookSlots)
    \/ updateSimulation(HookSlots, SliderUpdates)
    \/ predictTrafficReturn(1, HookTapes)
    \/ hookExportData
    \/ exportDataTimer
    \/ SampleRow(HookTapes)
    \/ ReturnDataset

SpecLoading == InitSimulation /\ [][NextLoading]_vars

\* The hook with prediction requests that overlap: the time slider and the
\* rainy button are used while requests are in flight
RequestUpdates == SliderUpdates \cup { [weather |-> "rainy"] }

NextRequests ==
    \/ GenerateArea(PredictCountPlan, HookNodePlan)
    \/ GenerateEdges(PredictConnPlan, {Mid})
    \/ initializeGNN(PredictWeightPlan)
    \/ loadGraph
    \/ fetchGraphReturn(Slots)
    \/ updateSimulation(Slots, RequestUpdates)
    \/ \E c \in Slots : predictTrafficReturn(c, HookTapes)

SpecRequests == InitSimulation /\ [][NextRequests]_vars

\* The hook from its first render on, with a graph load that succeeds or
\* is rejected, the controls of the panel and the auto-play timer
LoadUpdates == PanelUpdates \cup { [weather |-> "rainy"], [day_type |-> "weekend"] }

NextLoad ==
    \/ GenerateArea(PredictCountPlan, HookNodePlan)
    \/ GenerateEdges(PredictConnPlan, {Mid})
    \/ initializeGNN(PredictWeightPlan)
    \/ loadGraph
    \/ fetchGraphReturn(HookSlots)
    \/ fetchGraphRejects
    \/ updateSimulation(HookSlots, LoadUpdates)
    \/ autoPlayTick(HookSlots)
    \/ resetSimulation(HookSlots)
    \/ predictTrafficReturn(1, HookTapes)

SpecLoad == InitSimulation /\ [][NextLoad]_vars

\* Calls on a generator without nodes
InitEmpty == InitEmptyGenerator /\ InitSystem

NextEmpty ==
    \/ predictTraffic(1, Hours, Weathers, DayTypes)
    \/ predictTrafficReturn(1, PredictTapes)
    \/ generateDataset(0..MaxSamples)
    \/ exportData
    \/ exportDataTimer
    \/ SampleRow(DatasetTapes)
    \/ ReturnDataset

SpecEmpty == InitEmpty /\ [][NextEmpty]_vars

\* getNeighborInfluence on graphs of one area and of two areas, where node
\* positions can coincide
InfluenceAreas == { <<Area("MG Road")>>, <<Area("Whitefield"), Area("Marathahalli")>> }

InfluenceTapes == { <<0>>, <<Hi>>, <<Hi, 250, 0, 750, Mid>> }

InitInfluence == InitGenerator(InfluenceAreas) /\ InitSystem

NextInfluence ==
    \/ Construct
    \/ callNeighborInfluence({3, 8}, {"sunny", "rainy"}, {"weekday", "weekend"}, InfluenceTapes)

SpecInfluence == InitInfluence /\ [][NextInfluence]_vars

\* The iterations of predictCongestion on the same graphs
NextStages ==
    \/ Construct
    \/ predictNode({8}, {"sunny", "rainy"}, {"weekday"}, InfluenceTapes)

SpecStages == InitInfluence /\ [][NextStages]_vars

--------------------------------------------------------------------------
(* The generated graph *)

\* the position of the node with this id
IndexOf(id) == CHOOSE k \in 1..Len(nodes) : nodes[k].id = id

\* the nodes named after an area
NodesOf(area) == { k \in 1..Len(nodes) : nodes[k].name[1] = area.name }

\* C1: the source and the target of every stored edge are identifiers of
\* nodes of the node list.
C1_EdgeEndpointsExist ==
    \A k \in 1..Len(edges) :
        edges[k].source \in NodeIds(nodes) /\ edges[k].target \in NodeIds(nodes)

\* the constructor has finished with an edge between the two areas
C1_Witness ==
    /\ pc = "ready"
    /\ \E k \in 1..Len(edges) :
          nodes[IndexOf(edges[k].source)].name[1] # nodes[IndexOf(edges[k].target)].name[1]

\* C2: no unordered pair of nodes is stored as an edge twice, in the same or
\* in the opposite orientation.
C2_NoDuplicateEdges ==
    \A k1, k2 \in 1..Len(edges) :
        k1 # k2 => {edges[k1].source, edges[k1].target} # {edges[k2].source, edges[k2].target}

\* the constructor has finished, and an edge (s,t) is stored whose source s
\* is among the two nearest nodes of the later node t: the loop for t met
\* the pair again in the opposite orientation
C2_Witness ==
    /\ pc = "ready"
    /\ \E k \in 1..Len(edges) :
          LET s == IndexOf(edges[k].source)
              t == IndexOf(edges[k].target)
              near == SortedPrefix({ DistanceTo(nodes, t, j) : j \in (1..Len(nodes)) \ {t} },
                                   2, <<>>)
          IN  /\ s < t
              /\ \E q \in 1..Len(near) : near[q].index = s

\* C3: every stored edge's distance is greater than 0 and at most 5.0 km.
C3_EdgeDistancePositive ==
    \A k \in 1..Len(edges) :
        edges[k].distance > 0 /\ edges[k].distance <= MaxEdgeDistance

\* C4: each area processed so far has between 4 and 8 nodes named after it,
\* and once all 15 areas are processed the node count is between 60 and 120.
C4_NodeCounts ==
    /\ \A a \in 1..(areaIdx - 1) :
          Cardinality(NodesOf(areas[a])) >= 4 /\ Cardinality(NodesOf(areas[a])) <= 8
    /\ pc # "nodes" => Len(areas) = 15 /\ Len(nodes) >= 60 /\ Len(nodes) <= 120

\* all 15 areas are processed, one with 4 nodes and another with 8
C4_Witness ==
    /\ pc # "nodes"
    /\ Len(areas) = 15
    /\ \E a, b \in 1..Len(areas) :
          Cardinality(NodesOf(areas[a])) = 4 /\ Cardinality(NodesOf(areas[b])) = 8

--------------------------------------------------------------------------
(* Predictions *)

\* the scenario is one the interface admits
ValidScenario(p) ==
    /\ p.time_of_day \in 0..23
    /\ p.weather \in {"sunny", "rainy"}
    /\ p.day_type \in {"weekday", "weekend"}

Returned(c) == calls[c].state = "returned"

Predictions(c) == calls[c].response.predictions

\* C5: for every node and every valid scenario the returned
\* congestion_level is between 0.05 and 0.95.
C5_CongestionInBand ==
    \A c \in Slots :
        Returned(c) /\ ValidScenario(calls[c].params) =>
            \A id \in DOMAIN Predictions(c) :
                /\ Predictions(c)[id].congestion_level >= 50
                /\ Predictions(c)[id].congestion_level <= 950

\* a call with a valid scenario has returned 0.05 for one node and 0.95 for
\* another, one of them next to an edge of distance 0
C5_Witness ==
    \E c \in Slots :
        /\ Returned(c) /\ ValidScenario(calls[c].params)
        /\ \E id \in DOMAIN Predictions(c) : Predictions(c)[id].congestion_level = 50
        /\ \E id \in DOMAIN Predictions(c) : Predictions(c)[id].congestion_level = 950
        /\ \E k \in 1..Len(edges) : edges[k].distance = 0

\* C6: predicted_speed equals round(40 * (1 - congestion_level), 1 decimal)
\* for the congestion_level returned in the same Prediction.
C6_SpeedFromReturnedLevel ==
    \A c \in Slots :
        Returned(c) /\ ValidScenario(calls[c].params) =>
            \A id \in DOMAIN Predictions(c) :
                Predictions(c)[id].predicted_speed
                    = RoundDiv(400 * (1000 - Predictions(c)[id].congestion_level), 1000)

\* C7: wait_time equals round(congestion_level * 180, 1 decimal) for the
\* congestion_level returned in the same Prediction.
C7_WaitFromReturnedLevel ==
    \A c \in Slots :
        Returned(c) /\ ValidScenario(calls[c].params) =>
            \A id \in DOMAIN Predictions(c) :
                Predictions(c)[id].wait_time
                    = RoundDiv(1800 * Predictions(c)[id].congestion_level, 1000)

\* two calls have returned for the same valid scenario
SameScenario(c1, c2) ==
    /\ c1 # c2
    /\ Returned(c1) /\ Returned(c2)
    /\ calls[c1].params = calls[c2].params
    /\ ValidScenario(calls[c1].params)

LevelGap(c1, c2, id) ==
    Abs(Predictions(c1)[id].congestion_level - Predictions(c2)[id].congestion_level)

\* C8 as stated: two calls with the identical scenario return congestion
\* levels within 0.1 of each other for every node.
C8_RepeatWithinBand ==
    \A c1, c2 \in Slots :
        SameScenario(c1, c2) => \A id \in DOMAIN Predictions(c1) : LevelGap(c1, c2, id) <= 100

\* C8 amended: two calls with the identical scenario return congestion
\* levels within 0.1 of each other for every node whose pre-noise value was
\* the same in the two calls.
C8_RepeatWithinBandOfSharedValue ==
    \A c1, c2 \in Slots :
        SameScenario(c1, c2) =>
            \A id \in DOMAIN Predictions(c1) :
                calls[c1].preNoise[id] = calls[c2].preNoise[id] => LevelGap(c1, c2, id) <= 100

\* two calls with the same scenario had the same pre-noise value for a node
\* and returned levels for it that are 0.1 apart
C8_Witness ==
    \E c1, c2 \in Slots :
        /\ SameScenario(c1, c2)
        /\ \E id \in DOMAIN Predictions(c1) :
              /\ calls[c1].preNoise[id] = calls[c2].preNoise[id]
              /\ LevelGap(c1, c2, id) = 100

\* C9: a call whose hour is outside 0..23 or whose weather or day type is
\* not a recognised value fails with InvalidScenario and returns no
\* predictions.
C9_InvalidScenarioRejected ==
    \A c \in Slots :
        calls[c].state \notin {"idle", "pending"} /\ ~ValidScenario(calls[c].params) =>
            calls[c].state = "failed" /\ calls[c].error = "InvalidScenario"

--------------------------------------------------------------------------
(* Samples *)

\* C10: generateDataset(n) with n > 0 returns exactly n rows, every row
\* names a node of the graph and an hour in 0..23, and exportData returns
\* 1000 rows with count 1000.
C10_DatasetRows ==
    /\ sampling.state = "returned" /\ sampling.sampleCount > 0 =>
          sampling.length = sampling.sampleCount
    /\ "row" \in DOMAIN sampling =>
          /\ sampling.row.intersection_id \in NodeIds(nodes)
          /\ sampling.row.time_of_day \in 0..23
    /\ sampling.state = "returned" /\ sampling.by = "export" =>
          sampling.length = 1000 /\ sampling.count = 1000

\* exportData has returned, its last row being for hour 23 at the last node
C10_Witness ==
    /\ sampling.state = "returned"
    /\ sampling.by = "export"
    /\ sampling.row.time_of_day = 23
    /\ sampling.row.intersection_id = nodes[Len(nodes)].id

\* generateDataset(MaxSamples) has returned
C10_WitnessDirect ==
    /\ sampling.state = "returned"
    /\ sampling.by = "direct"
    /\ sampling.sampleCount = MaxSamples

--------------------------------------------------------------------------
(* The graph under the API's calls *)

\* C11: once the generator is constructed no step of a fetchGraph,
\* predictTraffic or exportData call changes the node list, the edge list or
\* the weight vectors, and the graph fetchGraph has returned is the
\* generator's node list and edge list.
C11_GraphUnchanged ==
    /\ [][pc = "ready" =>
            nodes' = nodes /\ edges' = edges /\ gnnWeights' = gnnWeights]_vars
    /\ [](graphCall.state = "returned" =>
            graphCall.response = [nodes |-> nodes, edges |-> edges])

\* a fetchGraph call, a predictTraffic call and an exportData call have all
\* returned, on a graph with edges
C11_Witness ==
    /\ graphCall.state = "returned"
    /\ Len(graphCall.response.edges) > 0
    /\ Returned(1)
    /\ sampling.state = "returned" /\ sampling.by = "export"

--------------------------------------------------------------------------
(* Calls in flight together *)

\* the results the call of slot c can return when it runs alone on the graph
AloneResults(c) ==
    { predictCongestion(nodes, edges, gnnWeights, calls[c].params.time_of_day,
                        calls[c].params.weather, calls[c].params.day_type, tape, 0)
      : tape \in ConcurrentTapes }

\* C12: whatever other call is in flight, was issued or has returned in
\* between, a returned call holds a prediction for every node of the
\* unchanged graph, and its result is one of the results the call returns
\* for its own parameters when it runs alone.
C12_CallsIndependent ==
    \A c \in Slots :
        Returned(c) =>
            /\ DOMAIN Predictions(c) = NodeIds(nodes)
            /\ Predictions(c) \in AloneResults(c)

\* two calls with different parameters have returned with different
\* results, the first of them while the other was in flight
C12_Witness ==
    \E c1, c2 \in Slots :
        /\ Returned(c1) /\ Returned(c2)
        /\ calls[c1].params # calls[c2].params
        /\ Predictions(c1) # Predictions(c2)
        /\ c2 \in calls[c1].others

--------------------------------------------------------------------------
(* The weight vectors *)

\* C13: once the generator is constructed there is one weight vector per
\* node, each of 4 coefficients between -1 and 1, and no later step changes
\* the weight list.
C13_WeightVectors ==
    /\ [](pc = "ready" =>
            /\ Len(gnnWeights) = Len(nodes)
            /\ \A k \in 1..Len(gnnWeights) :
                  /\ Len(gnnWeights[k]) = 4
                  /\ \A j \in 1..4 : gnnWeights[k][j] >= -1000 /\ gnnWeights[k][j] <= 1000)
    /\ [][pc = "ready" => gnnWeights' = gnnWeights]_vars

\* a call has returned on a graph of 8 nodes whose weights include the
\* lowest and the highest value that can be drawn
C13_Witness ==
    /\ pc = "ready"
    /\ Returned(1)
    /\ Len(nodes) = 8
    /\ \E k \in 1..Len(gnnWeights) : gnnWeights[k][1] = -1000
    /\ \E k \in 1..Len(gnnWeights) : gnnWeights[k][1] = WeightOf(RandomRes - 1)

--------------------------------------------------------------------------
(* The mapping returned *)

\* C14: for every scenario the keys of the returned mapping are exactly the
\* identifiers of the graph's nodes, one Prediction for each node.
C14_OnePredictionPerNode ==
    \A c \in Slots :
        Returned(c) =>
            /\ DOMAIN Predictions(c) = NodeIds(nodes)
            /\ Cardinality(DOMAIN Predictions(c)) = Len(nodes)

\* a call has returned a mapping of 8 predictions on a graph of 8 nodes
C14_Witness ==
    /\ Returned(1)
    /\ Len(nodes) = 8
    /\ Cardinality(DOMAIN Predictions(1)) = 8

--------------------------------------------------------------------------
(* The feature functions *)

\* the value the area feature is stated to have, in 1e-6
StatedAreaFeature(areaType, hour) ==
    CASE areaType = "commercial"  -> IF 9 <= hour /\ hour <= 21 THEN 1200000 ELSE 800000
      [] areaType = "tech_hub"    -> IF 8 <= hour /\ hour <= 19 THEN 1300000 ELSE 700000
      [] areaType = "residential" ->
            IF (6 <= hour /\ hour <= 9) \/ (18 <= hour /\ hour <= 22) THEN 1100000 ELSE 900000
      [] areaType = "mixed"       -> 1000000
      [] areaType = "junction"    -> 1100000

\* C15: for every hour in 0..23 and each of the five area types
\* getAreaFeature returns the stated number: commercial 1.2 in 9..21 else
\* 0.8, tech_hub 1.3 in 8..19 else 0.7, residential 1.1 in 6..9 and 18..22
\* else 0.9, mixed 1.0, junction 1.1.
C15_AreaFeatureTable ==
    frame.fn = "getAreaFeature" /\ frame.timeOfDay \in 0..23 /\ frame.areaType \in AreaTypes =>
        frame.result = Number(StatedAreaFeature(frame.areaType, frame.timeOfDay))

\* getAreaFeature has returned 1.3 for a tech_hub node at hour 8
C15_Witness ==
    /\ frame.fn = "getAreaFeature"
    /\ frame.areaType = "tech_hub"
    /\ frame.timeOfDay = 8
    /\ frame.result = Number(1300000)

WeatherContribution(i, weather) == Weighted(gnnWeights[i][2], WeatherFeature(weather))

\* C17: for every node and every weight vector drawn, the weather term of
\* the raw score is not lower for rainy than for sunny weather, all else
\* being the same.
C17_RainyNotLower ==
    pc = "ready" =>
        \A k \in 1..Len(nodes) :
            WeatherContribution(k, "rainy") >= WeatherContribution(k, "sunny")

--------------------------------------------------------------------------
(* The simulation hook *)

\* C18: in the hook time_of_day is always in 0..23, an auto-play tick sets
\* it to (time_of_day + 1) mod 24, and every predictTraffic request of the
\* hook carries an hour in 0..23.
C18_HourInRange ==
    /\ [](simulationState.time_of_day \in 0..23)
    /\ [](\A c \in HookSlots :
            calls[c].state # "idle" => calls[c].params.time_of_day \in 0..23)
    /\ [][autoPlayTick(HookSlots) =>
            simulationState'.time_of_day = (simulationState.time_of_day + 1) % 24]_vars

\* auto-play is on, a tick has taken the hour from 23 to 0 (no control sets
\* 0), and the request for hour 0 is in flight
C18_Witness ==
    /\ simulationState.isPlaying
    /\ simulationState.time_of_day = 0
    /\ calls[1].state = "pending"
    /\ calls[1].params.time_of_day = 0
    /\ 1 \in hookPc.updatePredictions

--------------------------------------------------------------------------
(* Node identifiers *)

\* C19: no two nodes of the node list have the same id, and no step
\* changes the id of a node or removes a node.
C19_NodeIdsDistinct ==
    /\ [](\A k1, k2 \in 1..Len(nodes) : k1 # k2 => nodes[k1].id # nodes[k2].id)
    /\ [][\A k \in 1..Len(nodes) : k <= Len(nodes') /\ nodes'[k].id = nodes[k].id]_vars

\* the constructor has finished a graph of 9 nodes from two areas, the last
\* node carrying the counter's last value
C19_Witness ==
    /\ pc = "ready"
    /\ Len(nodes) = 9
    /\ nodes[9].id = <<"node", 8>>
    /\ nodes[1].name[1] # nodes[9].name[1]

--------------------------------------------------------------------------
(* Volume *)

\* C20: for every node and scenario the returned volume is an integer from
\* 50 to 299; it comes from a draw of its own, so that a low volume occurs
\* with a high congestion level and a high volume with a low one.
C20_VolumeRange ==
    \A c \in Slots :
        Returned(c) =>
            \A id \in DOMAIN Predictions(c) :
                Predictions(c)[id].volume \in 50..299

\* one call has returned the highest volume for a node with the lowest
\* congestion level and the lowest volume for a node with the highest
\* congestion level
C20_Witness ==
    /\ Returned(1)
    /\ ValidScenario(calls[1].params)
    /\ \E id \in DOMAIN Predictions(1) :
          Predictions(1)[id].congestion_level = 50 /\ Predictions(1)[id].volume = 299
    /\ \E id \in DOMAIN Predictions(1) :
          Predictions(1)[id].congestion_level = 950 /\ Predictions(1)[id].volume = 50

--------------------------------------------------------------------------
(* A generator without nodes *)

--------------------------------------------------------------------------
(* Edge construction: nearest neighbours *)

\* the first k entries of the sorted list `distances` of source s
Nearest(s, k) ==
    SortedPrefix({ DistanceTo(nodes, s, j) : j \in (1..Len(nodes)) \ {s} }, k, <<>>)

\* an edge joins the nodes at positions s and t, in either direction
Adjacent(s, t) ==
    \E k \in 1..Len(edges) :
        \/ edges[k].source = nodes[s].id /\ edges[k].target = nodes[t].id
        \/ edges[k].source = nodes[t].id /\ edges[k].target = nodes[s].id

\* C22: every stored edge with source s has its target among the 4 nearest
\* nodes of s (ascending distance, ties in list order) at a distance under
\* 5.0 km; and after edge construction every node is joined, in one
\* direction or the other, to each of its 2 nearest nodes that lies under
\* 5.0 km.
C22_NearestNeighbours ==
    /\ \A k \in 1..Len(edges) :
          LET s    == IndexOf(edges[k].source)
              near == Nearest(s, 4)
          IN  \E q \in 1..Len(near) :
                 /\ nodes[near[q].index].id = edges[k].target
                 /\ near[q].distance = edges[k].distance
                 /\ edges[k].distance < MaxEdgeDistance
    /\ pc \in {"gnn", "ready"} =>
          \A s \in 1..Len(nodes) :
             LET near == Nearest(s, 2)
             IN  \A q \in 1..Len(near) :
                    near[q].distance < MaxEdgeDistance => Adjacent(s, near[q].index)

\* edge construction is over; an edge leads to the 4th nearest node of its
\* source, a node has a 4th nearest node under 5.0 km it is not joined to,
\* and a node is joined to its nearest node only by the edge stored from
\* that node
C22_Witness ==
    /\ pc \in {"gnn", "ready"}
    /\ \E k \in 1..Len(edges) :
          nodes[Nearest(IndexOf(edges[k].source), 4)[4].index].id = edges[k].target
    /\ \E s \in 1..Len(nodes) :
          LET c == Nearest(s, 4)[4]
          IN  c.distance < MaxEdgeDistance /\ ~Adjacent(s, c.index)
    /\ \E s \in 1..Len(nodes) :
          LET c == Nearest(s, 1)[1]
          IN  /\ c.distance < MaxEdgeDistance
              /\ \E k \in 1..Len(edges) :
                    edges[k].source = nodes[c.index].id /\ edges[k].target = nodes[s].id

--------------------------------------------------------------------------
(* The time feature *)

\* the stated bands: the hours of a band and its lower end; every band is
\* 0.2 wide and excludes its upper end
StatedTimeBands(dayType) ==
    IF dayType = "weekday"
    THEN { [hours |-> (7..10) \cup (17..20), low |-> 800000],
           [hours |-> 11..16, low |-> 400000],
           [hours |-> (0..6) \cup (21..23), low |-> 100000] }
    ELSE { [hours |-> 10..14, low |-> 500000],
           [hours |-> (0..9) \cup (15..23), low |-> 200000] }

--------------------------------------------------------------------------
(* The neighbour influence *)

\* the positions of the edges that touch the node, as source or as target
Touching(id) ==
    { k \in 1..Len(edges) : edges[k].source = id \/ edges[k].target = id }

\* the node at the other end of edge k
OtherEnd(id, k) == IF edges[k].source = id THEN edges[k].target ELSE edges[k].source

\* base_congestion(neighbour) * (1.2 if rainy else 1.0) / distance for the
\* touching edge k of the call in `frame`; the base congestion of the t-th
\* touching edge takes the t-th Math.random() result of the call
StatedTerm(id, k) ==
    LET t == Cardinality({ j \in Touching(id) : j <= k })
    IN  InfluenceTerm(getBaseCongestion(nodes[IndexOf(OtherEnd(id, k))], frame.timeOfDay,
                                        frame.dayType, Rand(frame.tape, t - 1)),
                      IF frame.weather = "rainy" THEN 1200 ELSE 1000,
                      edges[k].distance)

RECURSIVE StatedSum(_, _)
StatedSum(id, ks) ==
    IF ks = {} THEN [inf |-> FALSE, val |-> 0]
    ELSE LET k == CHOOSE j \in ks : \A m \in ks : j <= m
         IN  AddFloat(StatedTerm(id, k), StatedSum(id, ks \ {k}))

\* C24: getNeighborInfluence returns 0 exactly when no edge touches the
\* node; otherwise it returns the sum, over the edges that touch the node
\* as source or as target, of the neighbour's base congestion times 1.2
\* when rainy (1.0 otherwise) divided by the edge's distance, divided by
\* the number of those edges, and that value is strictly positive.  An
\* edge of distance 0 makes the quotient, the sum and the result Infinity,
\* which is the value of the stated expression and is positive.
C24_NeighbourInfluence ==
    frame.fn = "getNeighborInfluence" =>
        LET ks  == Touching(frame.nodeId)
            sum == StatedSum(frame.nodeId, ks)
        IN  /\ (frame.result = [inf |-> FALSE, val |-> 0]) <=> (ks = {})
            /\ ks # {} =>
                  /\ frame.result.inf = sum.inf
                  /\ ~sum.inf => frame.result.val = sum.val \div Cardinality(ks)
                  /\ frame.result.inf \/ frame.result.val > 0

\* getNeighborInfluence has returned a finite value for a node in rain that
\* one edge touches as its source and another as its target
C24_Witness ==
    /\ frame.fn = "getNeighborInfluence"
    /\ frame.weather = "rainy"
    /\ ~frame.result.inf
    /\ \E k1, k2 \in 1..Len(edges) :
          edges[k1].source = frame.nodeId /\ edges[k2].target = frame.nodeId

--------------------------------------------------------------------------
(* The stages of the congestion level *)

\* C25: the congestion level before rounding is the pre-noise value (the
\* sigmoid clamped to [0.1, 1.0]) plus a noise in [-0.05, 0.05), clamped to
\* [0.05, 0.95], in that order of stages, and it differs from the
\* pre-noise value by at most 0.05: the final clamp never moves the value
\* further from the pre-noise value than the noise band allows.
C25_NoiseBand ==
    frame.fn = "predictCongestion" =>
        /\ frame.preNoise >= 100000 /\ frame.preNoise <= 1000000
        /\ frame.noise >= -50000 /\ frame.noise < 50000
        /\ frame.level = Max(50000, Min(950000, frame.preNoise + frame.noise))
        /\ Abs(frame.level - frame.preNoise) <= 50000
        /\ frame.prediction.congestion_level = RoundDiv(frame.level, 1000)

\* an iteration whose pre-noise value is 1.0 drew a positive noise, and the
\* final clamp brought the level to 0.95
C25_Witness ==
    /\ frame.fn = "predictCongestion"
    /\ frame.preNoise = 1000000
    /\ frame.noise > 0
    /\ frame.level = 950000

\* an iteration whose pre-noise value is 0.1 drew the lowest noise
C25_WitnessLow ==
    /\ frame.fn = "predictCongestion"
    /\ frame.preNoise = 100000
    /\ frame.level = 50000

--------------------------------------------------------------------------
(* The rows of the dataset *)

\* the number a padded two-digit string stands for
NumberOfDigits(digits) ==
    IF Len(digits) = 2 THEN 10 * digits[1] + digits[2] ELSE digits[1]

\* the row's four prediction fields are the entry of the node named by the
\* row in a mapping predictCongestion computes for the row's own scenario
RowFromOwnPrediction(row, tapes) ==
    \E tape \in tapes :
        LET mapping == predictCongestion(nodes, edges, gnnWeights, row.time_of_day,
                                         row.weather, row.day_type, tape, 4)
            entry   == mapping[row.intersection_id]
        IN  /\ row.congestion_level = entry.congestion_level
            /\ row.predicted_speed = entry.predicted_speed
            /\ row.volume = entry.volume
            /\ row.wait_time = entry.wait_time

\* C26: every row generateDataset pushes is consistent in itself: its name,
\* position, road type and area type are those of the node whose id is
\* intersection_id; its congestion_level, predicted_speed, volume and
\* wait_time are that node's entry in a mapping computed for the row's own
\* time_of_day, weather and day_type; the hour of its timestamp is its
\* time_of_day; and the row is the same whatever rows were pushed before.
C26_RowConsistent ==
    "row" \in DOMAIN sampling =>
        LET row == sampling.row
        IN  /\ row.intersection_id \in NodeIds(nodes)
            /\ LET node == nodes[IndexOf(row.intersection_id)]
               IN  /\ row.intersection_name = node.name
                   /\ row.lat = node.lat
                   /\ row.lng = node.lng
                   /\ row.road_type = node.road_type
                   /\ row.area_type = node.features.area_type
            /\ RowFromOwnPrediction(row, RowTapes)
            /\ NumberOfDigits(row.timestamp.hour) = row.time_of_day
            /\ \E tape \in RowTapes : row = DatasetRow(nodes, edges, gnnWeights, tape)

\* a second row has been pushed, for a node other than the first, at an
\* hour of two digits in rain
C26_Witness ==
    /\ "row" \in DOMAIN sampling
    /\ sampling.length >= 2
    /\ sampling.row.intersection_id # nodes[1].id
    /\ sampling.row.time_of_day >= 10
    /\ sampling.row.weather = "rainy"

--------------------------------------------------------------------------
(* The loading flag *)

\* a request of the hook is in flight: the graph load, a prediction request
\* or an export has been started and its continuation has not run
InFlight ==
    \/ hookPc.loadGraph
    \/ hookPc.updatePredictions # {}
    \/ hookPc.exportData

\* C27: isLoading is true in every state in which a graph load, a
\* prediction request or an export of the hook is in flight, whatever the
\* order in which the requests start and finish.
C27_LoadingWhileInFlight == InFlight => isLoading = TRUE

--------------------------------------------------------------------------
(* The predictions displayed *)

\* the graph is loaded and no prediction request of the hook is in flight
Settled ==
    /\ hookPc.mounted
    /\ ~hookPc.loadGraph
    /\ Len(graphData.nodes) > 0
    /\ hookPc.updatePredictions = {}

\* C28: when no prediction request is in flight, the predictions displayed
\* are the response to a request made with the current time_of_day,
\* weather and day_type: the response to an older request has not replaced
\* that of a newer one, in whatever order the requests were made and
\* returned.
C28_LatestResponseShown ==
    Settled =>
        \E c \in Slots :
            /\ Returned(c)
            /\ calls[c].params = RequestParams(simulationState)
            /\ predictions = calls[c].response

\* two requests with different parameters were in flight together; both
\* have returned, and the response displayed is that of the later one
C28_Witness ==
    /\ Settled
    /\ \E c1, c2 \in Slots :
          /\ Returned(c1) /\ Returned(c2)
          /\ c2 \in calls[c1].others
          /\ calls[c1].params # calls[c2].params
          /\ calls[c1].response # calls[c2].response
          /\ predictions = calls[c2].response

--------------------------------------------------------------------------
(* Prediction requests and the graph load *)

\* a prediction request is issued in this step with the parameters of the
\* state the step leads to
RequestIssued ==
    \E c \in Slots :
        /\ calls[c].state # "pending"
        /\ calls'[c].state = "pending"
        /\ calls'[c].params = RequestParams(simulationState')

\* no request exists unless fetchGraph has returned a graph with a node;
\* after a rejected load no request exists and the error is set
RequestsAfterGraph ==
    /\ (\E c \in Slots : calls[c].state # "idle") =>
          /\ graphCall.state = "returned"
          /\ Len(graphCall.response.nodes) >= 1
          /\ graphData = graphCall.response
    /\ graphCall.state = "failed" =>
          /\ \A c \in Slots : calls[c].state = "idle"
          /\ error = [message |-> "Failed to load graph data"]

\* a request is issued in the step that loads the graph, and in every
\* later step that changes time_of_day, weather or day_type; no other step
\* issues one
RequestPerChange ==
    LET loaded  == Len(graphData.nodes) = 0 /\ Len(graphData'.nodes) > 0
        changed == /\ Len(graphData'.nodes) > 0
                   /\ RequestParams(simulationState') # RequestParams(simulationState)
    IN  RequestIssued <=> (loaded \/ changed)

\* C29: no prediction request is issued before fetchGraph has returned a
\* graph with at least one node; after a graph load that failed no request
\* is ever issued and the error 'Failed to load graph data' stays set; and
\* once the graph is loaded a request is issued for the initial parameters
\* and for every later change of time_of_day, weather or day_type.
C29_RequestsFollowGraph == []RequestsAfterGraph /\ [][RequestPerChange]_vars

\* the graph is loaded, the response to an earlier request is displayed,
\* and a request for a changed weather is in flight
C29_Witness ==
    /\ Len(graphData.nodes) > 0
    /\ predictions # Null
    /\ \E c \in Slots :
          /\ calls[c].state = "pending"
          /\ calls[c].params.weather = "rainy"
          /\ calls[c].params = RequestParams(simulationState)

\* the graph load was rejected, and the controls were used afterwards
C29_WitnessRejected ==
    /\ graphCall.state = "failed"
    /\ simulationState # DefaultSimulationState
    /\ error = [message |-> "Failed to load graph data"]

--------------------------------------------------------------------------
(* Reset, pause and partial updates *)

\* the responses predictTraffic can give for a weather, as prediction
\* mappings
ResponsesFor(weather) ==
    { predictCongestion(nodes, edges, gnnWeights, h, weather, d, tape, 0) :
        h \in 0..23, d \in {"weekday", "weekend"}, tape \in HookTapes }

\* C30: resetSimulation sets the simulation state to time_of_day 9, sunny,
\* weekday, not playing, speed 1, whatever the state before; while
\* isPlaying is false no interval timer is set, so that no tick can change
\* time_of_day; and updateSimulation with a partial update gives the named
\* fields the values of the update and leaves every other field as it was.
C30_ResetPauseUpdate ==
    /\ [][resetSimulation(HookSlots) =>
            simulationState' = [time_of_day |-> 9, weather |-> "sunny",
                                day_type |-> "weekday", isPlaying |-> FALSE,
                                speed |-> 1]]_vars
    /\ [](~simulationState.isPlaying =>
            interval = Null /\ ~ENABLED autoPlayTick(HookSlots))
    /\ [][\A u \in LoadUpdates :
            updateSimulation(HookSlots, {u}) =>
                \A f \in DOMAIN simulationState :
                    simulationState'[f] = IF f \in DOMAIN u THEN u[f]
                                          ELSE simulationState[f]]_vars

\* the simulation state is the default one with no timer set, while the
\* predictions displayed are a response given for rain: only a reset leads
\* from rain back to sunny
C30_Witness ==
    /\ simulationState = DefaultSimulationState
    /\ interval = Null
    /\ predictions # Null
    /\ predictions.predictions \in ResponsesFor("rainy")
    /\ predictions.predictions \notin ResponsesFor("sunny")

==========================================================================
